---- MODULE Spec2Model ----
(***************************************************************************)
(* Task status workflow of desafio_embrapii: TaskWorkflowService           *)
(* (core/services.py), the request layer that calls it (core/views.py),    *)
(* the task update path (core/serializers.py) and the admin form           *)
(* (core/admin.py), over a store of Task rows.                             *)
(***************************************************************************)
EXTENDS Integers, Sequences, FiniteSets, TLC

VARIABLES
    store,   \* the Task table: task id -> row, or NoTask
    req,     \* in-memory Task objects held by callers / requests
    audit,   \* records emitted by logger.info in _audit_transition
    last,    \* the most recent operation and what it returned or raised
             \* (h: the script that keeps the object, 0 for a request)
    calls,   \* operations counted so far against the bound of the run
    projects \* the Project table: project id -> row with its tasks, or NoProject

vars == <<store, req, audit, last, calls, projects>>

-----------------------------------------------------------------------------
(* Bounds of the model *)

MaxAudit == 2       \* audit records kept before the model stops committing
MaxCalls == 1       \* service calls a script makes on the object it holds
MaxRequests == 2    \* requests answered in a run that mixes edits and transitions
MaxScriptCalls == 3 \* service calls of a script that follows one task
MaxTasks == 4       \* tasks of a summarised project
MaxDay == 3         \* days are 1..MaxDay
Today == 2          \* timezone.now().date()

-----------------------------------------------------------------------------
(* Task.StatusChoices *)

PENDENTE == "PENDENTE"
EM_PROGRESSO == "EM_PROGRESSO"
CONCLUIDA == "CONCLUIDA"
CANCELADA == "CANCELADA"

StatusChoices == {PENDENTE, EM_PROGRESSO, CONCLUIDA, CANCELADA}

\* What a direct caller may pass as new_status: any string.
Targets == StatusChoices \cup {"ARQUIVADA"}

TaskIds == {1, 2}
ProjectIds == {1}
Reqs == {1, 2}
Days == 1..MaxDay

NoTask == [status |-> "NoTask"]
NoProject == [tasks |-> {}, exists |-> FALSE]

\* No project has been created through the service.
NoProjects == [p \in ProjectIds |-> NoProject]
NoUser == "NoUser"
NoReason == "NoReason"

\* Users of the demo fixtures plus Django's AnonymousUser.
Users == {"anon", "dev1", "admin"}
Assignees == {NoUser, "dev1", "dev2"}
Reasons == {NoReason, "motivo"}

is_authenticated(user) == user # "anon"
is_staff(user) == user = "admin"

-----------------------------------------------------------------------------
(* Descriptions are strings over a blank and a letter. *)

MinDescLen == 10

RECURSIVE Rep(_, _)
Rep(c, n) == IF n <= 0 THEN <<>> ELSE <<c>> \o Rep(c, n - 1)

RECURSIVE lstrip(_)
lstrip(s) == IF s # <<>> /\ Head(s) = " " THEN lstrip(Tail(s)) ELSE s

RECURSIVE rstrip(_)
rstrip(s) ==
    IF s # <<>> /\ s[Len(s)] = " " THEN rstrip(SubSeq(s, 1, Len(s) - 1)) ELSE s

\* A plausible slip: the length is taken without trimming.
strip_none(s) == s

\* str.strip()
strip(s) == rstrip(lstrip(s))

Descs == { <<>>,
           <<" ">> \o Rep("x", MinDescLen - 1) \o <<" ">>,
           <<" ">> \o Rep("x", MinDescLen) \o <<" ">> }

-----------------------------------------------------------------------------
(* VALID_TRANSITIONS.get(old_status, []) *)

\* A plausible slip: a cancelled task cannot be reopened.
VALID_TRANSITIONS_no_reopen(old_status) ==
    CASE old_status = PENDENTE -> {EM_PROGRESSO, CANCELADA}
      [] old_status = EM_PROGRESSO -> {CONCLUIDA, CANCELADA, PENDENTE}
      [] OTHER -> {}

VALID_TRANSITIONS(old_status) ==
    CASE old_status = PENDENTE -> {EM_PROGRESSO, CANCELADA}
      [] old_status = EM_PROGRESSO -> {CONCLUIDA, CANCELADA, PENDENTE}
      [] old_status = CONCLUIDA -> {}
      [] old_status = CANCELADA -> {PENDENTE}
      [] OTHER -> {}

OK == "ok"

validate_transition(old_status, new_status) ==
    IF new_status \notin VALID_TRANSITIONS(old_status)
    THEN "InvalidTransition"
    ELSE OK

\* hasattr(task.data_entrega, 'year'): true of a date, false of the string
\* the object was created with.
has_year(data_entrega) == data_entrega.kind = "date"

\* A plausible slip: the assignee rule is left out.
validate_business_rules_no_assignee(task, new_status, user) ==
    IF new_status = EM_PROGRESSO /\ has_year(task.data_entrega)
            /\ task.data_entrega.day < Today
        THEN "PastDueDate"
    ELSE IF new_status = CONCLUIDA
            /\ (task.descricao = <<>> \/ Len(strip(task.descricao)) < MinDescLen)
        THEN "MissingCompletionNotes"
    ELSE IF new_status = CONCLUIDA /\ task.assignee # NoUser
            /\ task.assignee # user /\ ~is_staff(user)
        THEN "NotAssignee"
    ELSE OK

\* A plausible slip: staff are not exempt from the assignee-only rule.
validate_business_rules_no_staff(task, new_status, user) ==
    IF new_status = EM_PROGRESSO /\ task.assignee = NoUser
        THEN "MissingAssignee"
    ELSE IF new_status = EM_PROGRESSO /\ has_year(task.data_entrega)
            /\ task.data_entrega.day < Today
        THEN "PastDueDate"
    ELSE IF new_status = CONCLUIDA
            /\ (task.descricao = <<>> \/ Len(strip(task.descricao)) < MinDescLen)
        THEN "MissingCompletionNotes"
    ELSE IF new_status = CONCLUIDA /\ task.assignee # NoUser
            /\ task.assignee # user
        THEN "NotAssignee"
    ELSE OK

\* A plausible slip: the description rule is left out.
validate_business_rules_no_notes(task, new_status, user) ==
    IF new_status = EM_PROGRESSO /\ task.assignee = NoUser
        THEN "MissingAssignee"
    ELSE IF new_status = EM_PROGRESSO /\ has_year(task.data_entrega)
            /\ task.data_entrega.day < Today
        THEN "PastDueDate"
    ELSE IF new_status = CONCLUIDA /\ task.assignee # NoUser
            /\ task.assignee # user /\ ~is_staff(user)
        THEN "NotAssignee"
    ELSE OK

\* A plausible slip: within each target the two rules are swapped.
validate_business_rules_swapped(task, new_status, user) ==
    IF new_status = EM_PROGRESSO /\ task.assignee # NoUser
            /\ has_year(task.data_entrega) /\ task.data_entrega.day < Today
        THEN "PastDueDate"
    ELSE IF new_status = EM_PROGRESSO /\ has_year(task.data_entrega)
            /\ task.data_entrega.day < Today
        THEN "PastDueDate"
    ELSE IF new_status = EM_PROGRESSO /\ task.assignee = NoUser
        THEN "MissingAssignee"
    ELSE IF new_status = CONCLUIDA /\ task.assignee # NoUser
            /\ task.assignee # user /\ ~is_staff(user)
        THEN "NotAssignee"
    ELSE IF new_status = CONCLUIDA
            /\ (task.descricao = <<>> \/ Len(strip(task.descricao)) < MinDescLen)
        THEN "MissingCompletionNotes"
    ELSE OK

\* A plausible slip: sending a task back is kept to its assignee and staff.
validate_business_rules_send_back(task, new_status, user) ==
    IF new_status = EM_PROGRESSO /\ task.assignee = NoUser
        THEN "MissingAssignee"
    ELSE IF new_status = EM_PROGRESSO /\ has_year(task.data_entrega)
            /\ task.data_entrega.day < Today
        THEN "PastDueDate"
    ELSE IF new_status = CONCLUIDA
            /\ (task.descricao = <<>> \/ Len(strip(task.descricao)) < MinDescLen)
        THEN "MissingCompletionNotes"
    ELSE IF new_status \in {CONCLUIDA, PENDENTE} /\ task.assignee # NoUser
            /\ task.assignee # user /\ ~is_staff(user)
        THEN "NotAssignee"
    ELSE OK

validate_business_rules(task, new_status, user) ==
    IF new_status = EM_PROGRESSO /\ task.assignee = NoUser
        THEN "MissingAssignee"
    ELSE IF new_status = EM_PROGRESSO /\ has_year(task.data_entrega)
            /\ task.data_entrega.day < Today
        THEN "PastDueDate"
    ELSE IF new_status = CONCLUIDA
            /\ (task.descricao = <<>> \/ Len(strip(task.descricao)) < MinDescLen)
        THEN "MissingCompletionNotes"
    ELSE IF new_status = CONCLUIDA /\ task.assignee # NoUser
            /\ task.assignee # user /\ ~is_staff(user)
        THEN "NotAssignee"
    ELSE OK

\* A plausible slip: the anonymous-user check is written first.
validate_permissions_auth_first(task, new_status, user) ==
    IF ~is_authenticated(user)
        THEN "Unauthenticated"
    ELSE IF new_status = CANCELADA /\ task.status = EM_PROGRESSO /\ ~is_staff(user)
        THEN "InsufficientPrivilege"
    ELSE OK

\* A plausible slip: every cancellation asks for a staff user.
validate_permissions_staff_cancels(task, new_status, user) ==
    IF new_status = CANCELADA /\ ~is_staff(user)
        THEN "InsufficientPrivilege"
    ELSE IF ~is_authenticated(user)
        THEN "Unauthenticated"
    ELSE OK

\* A plausible slip: the assignee may cancel their own task in progress.
validate_permissions_assignee_cancels(task, new_status, user) ==
    IF new_status = CANCELADA /\ task.status = EM_PROGRESSO /\ ~is_staff(user)
            /\ task.assignee # user
        THEN "InsufficientPrivilege"
    ELSE IF ~is_authenticated(user)
        THEN "Unauthenticated"
    ELSE OK

\* A plausible slip: reopening a cancelled task is kept for staff.
validate_permissions_staff_reopens(task, new_status, user) ==
    IF new_status = CANCELADA /\ task.status = EM_PROGRESSO /\ ~is_staff(user)
        THEN "InsufficientPrivilege"
    ELSE IF new_status = PENDENTE /\ task.status = CANCELADA /\ ~is_staff(user)
        THEN "InsufficientPrivilege"
    ELSE IF ~is_authenticated(user)
        THEN "Unauthenticated"
    ELSE OK

validate_permissions(task, new_status, user) ==
    IF new_status = CANCELADA /\ task.status = EM_PROGRESSO /\ ~is_staff(user)
        THEN "InsufficientPrivilege"
    ELSE IF ~is_authenticated(user)
        THEN "Unauthenticated"
    ELSE OK

\* A plausible slip: the anonymous-user check runs before everything else.
Validate_auth_first(task, new_status, user) ==
    LET e1 == validate_transition(task.status, new_status)
        e2 == validate_business_rules(task, new_status, user)
        e3 == validate_permissions(task, new_status, user)
    IN  IF ~is_authenticated(user) THEN "Unauthenticated"
        ELSE IF e1 # OK THEN e1 ELSE IF e2 # OK THEN e2 ELSE e3

\* A plausible slip: the business rules run before the state machine.
Validate_rules_first(task, new_status, user) ==
    LET e1 == validate_business_rules(task, new_status, user)
        e2 == validate_transition(task.status, new_status)
        e3 == validate_permissions(task, new_status, user)
    IN  IF e1 # OK THEN e1 ELSE IF e2 # OK THEN e2 ELSE e3

\* The checks of transition_status in the order the code runs them; the
\* first one that raises decides the call.
Validate(task, new_status, user) ==
    LET e1 == validate_transition(task.status, new_status)
        e2 == validate_business_rules(task, new_status, user)
        e3 == validate_permissions(task, new_status, user)
    IN  IF e1 # OK THEN e1 ELSE IF e2 # OK THEN e2 ELSE e3

ValidationErrors ==
    {"InvalidTransition", "MissingAssignee", "PastDueDate",
     "MissingCompletionNotes", "NotAssignee"}
PermissionErrors == {"InsufficientPrivilege", "Unauthenticated"}
Rejections == ValidationErrors \cup PermissionErrors

\* Where the atomic block may raise: task.save(), print() in
\* _audit_transition (after logger.info), _post_transition_actions.
Faults == {"none", "save", "audit", "post"}
FaultError(fault) ==
    CASE fault = "save" -> "SaveFailed"
      [] fault = "audit" -> "AuditFailed"
      [] fault = "post" -> "PostActionFailed"
      [] OTHER -> OK

\* A plausible slip: the reason is left out of the record.
audit_transition_no_reason(id, old_status, new_status, user, reason) ==
    [task |-> id, old |-> old_status, new |-> new_status,
     user |-> user, reason |-> NoReason]

audit_transition(id, old_status, new_status, user, reason) ==
    [task |-> id, old |-> old_status, new |-> new_status,
     user |-> user, reason |-> reason]

\* A plausible slip: the short-circuit is missing.
SelfTransition_never(task, new_status) == FALSE

\* if old_status == new_status: return task
SelfTransition(task, new_status) == task.status = new_status

\* A plausible slip: task.status is assigned before the checks run.
Raised_assigned(task, new_status, err) ==
    [obj |-> [task EXCEPT !.status = new_status], saved |-> FALSE,
     emitted |-> <<>>, dispatched |-> FALSE, result |-> err, fault |-> "none"]

\* A check raised: nothing was assigned yet.
Raised(task, new_status, err) ==
    [obj |-> task, saved |-> FALSE, emitted |-> <<>>, dispatched |-> FALSE,
     result |-> err, fault |-> "none"]

\* transition_status(task, new_status, user, reason), with `fault` the place
\* where the atomic block raises, if any.  Returns what the call leaves
\* behind: the in-memory object, whether its row was written and stays
\* written after the atomic block, the audit records emitted, whether
\* _post_transition_actions was called, and the result.
transition_status(id, task, new_status, user, reason, fault) ==
    LET old_status == task.status
        err == Validate(task, new_status, user)
        moved == [task EXCEPT !.status = new_status]
        rec == audit_transition(id, old_status, new_status, user, reason)
    IN  IF SelfTransition(task, new_status) THEN
            [obj |-> task, saved |-> FALSE, emitted |-> <<>>,
             dispatched |-> FALSE, result |-> "returned", fault |-> "none"]
        ELSE IF err # OK THEN
            Raised(task, new_status, err)
        ELSE IF fault = "save" THEN
            [obj |-> moved, saved |-> FALSE, emitted |-> <<>>,
             dispatched |-> FALSE, result |-> FaultError(fault), fault |-> fault]
        ELSE IF fault = "audit" THEN
            [obj |-> moved, saved |-> FALSE, emitted |-> <<rec>>,
             dispatched |-> FALSE, result |-> FaultError(fault), fault |-> fault]
        ELSE IF fault = "post" THEN
            [obj |-> moved, saved |-> FALSE, emitted |-> <<rec>>,
             dispatched |-> TRUE, result |-> FaultError(fault), fault |-> fault]
        ELSE
            [obj |-> moved, saved |-> TRUE, emitted |-> <<rec>>,
             dispatched |-> TRUE, result |-> "returned", fault |-> "none"]

-----------------------------------------------------------------------------
(* The store *)

\* Task.save(): every column of the row is written from the object.
Row(task) ==
    [status |-> task.status, assignee |-> task.assignee,
     descricao |-> task.descricao, data_entrega |-> task.data_entrega.day]

\* A Task object read from the store: data_entrega is a date.
FromDb(row) ==
    [status |-> row.status, assignee |-> row.assignee,
     descricao |-> row.descricao,
     data_entrega |-> [kind |-> "date", day |-> row.data_entrega]]

\* A save that writes the status to every row of the table.
save_all(rows, id, task) ==
    [t \in DOMAIN rows |->
        IF t = id THEN Row(task)
        ELSE IF rows[t] = NoTask THEN NoTask
        ELSE [rows[t] EXCEPT !.status = task.status]]

\* task.save() inside the atomic block: UPDATE of the row whose key is the
\* object's, every other row left as it is.
save(rows, id, task) == [rows EXCEPT ![id] = Row(task)]

Idle == [pc |-> "idle"]
Held(id, task) == [pc |-> "held", task |-> id, obj |-> task]

NoCall == [op |-> "none"]

\* Task objects as Task.objects.create(...) returns them: any status, any
\* content, the due date kept as it was passed (a date or a string).
Fixtures ==
    [status : StatusChoices, assignee : Assignees, descricao : Descs,
     data_entrega : [kind : {"date", "str"}, day : Days]]

-----------------------------------------------------------------------------------------------------------------------------------------------------
(* Operations *)

\* The call reaches the atomic block: the reason and the place of a failure
\* matter only then.
Commits(task, new_status, user) ==
    ~SelfTransition(task, new_status) /\ Validate(task, new_status, user) = OK

\* The effect of one transition_status call by the holder h on the store,
\* the audit log and the object; `keep` says whether the caller keeps the
\* object afterwards.
Apply(h, new_status, user, reason, fault, keep) ==
    LET id == req[h].task
        before == req[h].obj
        out == transition_status(id, before, new_status, user, reason, fault)
    IN  /\ Len(audit) + Len(out.emitted) <= MaxAudit
        /\ store' = IF out.saved THEN save(store, id, out.obj) ELSE store
        /\ audit' = audit \o out.emitted
        /\ req' = [req EXCEPT ![h] = IF keep THEN Held(id, out.obj) ELSE Idle]
        /\ last' = [op |-> "transition", h |-> IF keep THEN h ELSE 0, task |-> id,
                    old |-> before.status, new |-> new_status, user |-> user,
                    reason |-> reason, stored |-> store[id].status,
                    result |-> out.result, fault |-> out.fault,
                    obj_status |-> out.obj.status,
                    dispatched |-> out.dispatched]

Call(h, new_status, user, keep) ==
    IF Commits(req[h].obj, new_status, user)
    THEN \E reason \in (IF keep THEN Reasons ELSE {NoReason}), fault \in Faults :
             Apply(h, new_status, user, reason, fault, keep)
    ELSE Apply(h, new_status, user, NoReason, "none", keep)

\* A script or test calls the service on the object it holds and keeps it.
DirectCall(h) ==
    /\ req[h].pc = "held"
    /\ \E new_status \in Targets, user \in Users : Call(h, new_status, user, TRUE)

\* TaskViewSet.get_object(): the request reads the row into a Task object.
GetObject(h) ==
    /\ req[h].pc = "idle"
    /\ \E id \in TaskIds :
           /\ store[id] # NoTask
           /\ req' = [req EXCEPT ![h] = Held(id, FromDb(store[id]))]
    /\ UNCHANGED <<store, audit, last>>

\* TaskViewSet.transition: POST /api/tasks/{id}/transition/ by request.user.
\* A new_status outside the choices is answered 400 before the service is
\* called; the response ends the request and its object is dropped.
ViewTransition(h) ==
    /\ req[h].pc = "held"
    /\ \E new_status \in Targets, user \in Users :
           IF new_status \notin StatusChoices
           THEN /\ req' = [req EXCEPT ![h] = Idle]
                /\ last' = [op |-> "bad_request", task |-> req[h].task]
                /\ UNCHANGED <<store, audit>>
           ELSE Call(h, new_status, user, FALSE)

Absent == "Absent"

\* Bodies of PUT/PATCH /api/tasks/{id}/: one field is sent, the others are
\* left out.
PatchData ==
    [status : StatusChoices, assignee : {Absent}, descricao : {Absent}]
    \cup [status : {Absent}, assignee : {NoUser, "dev2"}, descricao : {Absent}]
    \cup [status : {Absent}, assignee : {Absent}, descricao : {<<>>}]

\* data.get(key) or instance.key, as TaskSerializer.validate reads a field.
GetOr(value, fallback, empty) ==
    IF value = Absent \/ value = empty THEN fallback ELSE value

\* TaskSerializer.validate on an update (self.instance is set): the rules
\* that read status, assignee and descricao.
serializer_validate(instance, data) ==
    LET status == GetOr(data.status, instance.status, "")
        assignee == GetOr(data.assignee, instance.assignee, NoUser)
        descricao == GetOr(data.descricao, instance.descricao, <<>>)
    IN  IF status = EM_PROGRESSO /\ assignee = NoUser THEN "assignee"
        ELSE IF status = CONCLUIDA /\ descricao = <<>> THEN "descricao"
        ELSE IF status # instance.status /\ instance.status = PENDENTE
                /\ status = CONCLUIDA THEN "status"
        ELSE IF status # instance.status /\ instance.status = CONCLUIDA
                /\ status # CONCLUIDA THEN "status"
        ELSE OK

\* ModelSerializer.update: setattr for every field sent.
serializer_update(instance, data) ==
    [instance EXCEPT
        !.status = IF data.status = Absent THEN @ ELSE data.status,
        !.assignee = IF data.assignee = Absent THEN @ ELSE data.assignee,
        !.descricao = IF data.descricao = Absent THEN @ ELSE data.descricao]

\* TaskViewSet update / partial_update: validate, then instance.save().
UpdateTask(h) ==
    /\ req[h].pc = "held"
    /\ \E data \in PatchData :
           LET id == req[h].task
               instance == req[h].obj
               err == serializer_validate(instance, data)
           IN  /\ store' = IF err = OK
                           THEN [store EXCEPT ![id] = Row(serializer_update(instance, data))]
                           ELSE store
               /\ last' = [op |-> "update", task |-> id, result |-> err]
    /\ req' = [req EXCEPT ![h] = Idle]
    /\ UNCHANGED audit

\* TaskAdmin change form: status is an editable field of the fieldsets and
\* the form checks only that it is one of the choices.
AdminChange(h) ==
    /\ req[h].pc = "held"
    /\ \E status \in StatusChoices :
           LET id == req[h].task
           IN  /\ store' = [store EXCEPT ![id] = Row([req[h].obj EXCEPT !.status = status])]
               /\ last' = [op |-> "admin", task |-> id, result |-> OK]
    /\ req' = [req EXCEPT ![h] = Idle]
    /\ UNCHANGED audit

InitFixture ==
    \E f \in Fixtures :
        /\ store = [t \in TaskIds |-> IF t = 1 THEN Row(f) ELSE NoTask]
        /\ req = [h \in Reqs |-> IF h = 1 THEN Held(1, f) ELSE Idle]
        /\ audit = <<>>
        /\ last = NoCall
        /\ calls = 0
        /\ projects = NoProjects

Init == InitFixture

\* An operation counted against a bound of the run, or not counted.
Count(max) == calls < max /\ calls' = calls + 1
Free == UNCHANGED calls

Next == \E h \in Reqs : DirectCall(h) /\ Count(MaxCalls) /\ UNCHANGED projects

\* A script or a test creates a task and calls the service on it.
Spec == Init /\ [][Next]_vars

\* Rows of tasks that have an assignee, a description and a due date ahead,
\* not started yet or in progress.
ViewRows ==
    [status : {PENDENTE, EM_PROGRESSO}, assignee : {"dev1"},
     descricao : {<<" ">> \o Rep("x", MinDescLen) \o <<" ">>},
     data_entrega : {MaxDay}]

InitView ==
    /\ \E row \in ViewRows :
           store = [t \in TaskIds |-> IF t = 1 THEN row ELSE NoTask]
    /\ req = [h \in Reqs |-> Idle]
    /\ audit = <<>>
    /\ last = NoCall
    /\ calls = 0
    /\ projects = NoProjects

NextView ==
    \E h \in Reqs : (GetObject(h) \/ ViewTransition(h)) /\ Free /\ UNCHANGED projects

\* Concurrent requests against the views.
SpecView == InitView /\ [][NextView]_vars

NextApi ==
    \E h \in Reqs :
        \/ GetObject(h) /\ Free /\ UNCHANGED projects
        \/ ViewTransition(h) /\ Count(MaxRequests) /\ UNCHANGED projects
        \/ UpdateTask(h) /\ Count(MaxRequests) /\ UNCHANGED projects
        \/ AdminChange(h) /\ Count(MaxRequests) /\ UNCHANGED projects

\* Every way the request layer and the admin reach a task.
SpecApi == InitView /\ [][NextApi]_vars

-----------------------------------------------------------------------------
(* The read-only operations of the service *)

\* A plausible slip: a completed task is offered for reopening.
get_available_transitions_reopen(task) ==
    IF task.status = CONCLUIDA THEN {PENDENTE} ELSE VALID_TRANSITIONS(task.status)

\* cls.VALID_TRANSITIONS.get(task.status, [])
get_available_transitions(task) == VALID_TRANSITIONS(task.status)

\* A plausible slip: the assignee rule is evaluated as well.
can_transition_to_checked(task, new_status) ==
    /\ new_status \in get_available_transitions(task)
    /\ ~(new_status = EM_PROGRESSO /\ task.assignee = NoUser)

\* new_status in cls.get_available_transitions(task)
can_transition_to(task, new_status) ==
    new_status \in get_available_transitions(task)

\* A caller asks which transitions the object it holds offers.
GetAvailableTransitions(h) ==
    /\ req[h].pc = "held"
    /\ last' = [op |-> "available", h |-> h, task |-> req[h].task,
                status |-> req[h].obj.status,
                result |-> get_available_transitions(req[h].obj)]
    /\ UNCHANGED <<store, req, audit>>

\* A caller asks whether the object it holds can move to new_status.
CanTransitionTo(h) ==
    /\ req[h].pc = "held"
    /\ \E new_status \in Targets :
           last' = [op |-> "can", h |-> h, task |-> req[h].task,
                    status |-> req[h].obj.status, new |-> new_status,
                    result |-> can_transition_to(req[h].obj, new_status)]
    /\ UNCHANGED <<store, req, audit>>

NextQuery ==
    \E h \in Reqs :
        \/ DirectCall(h) /\ Count(MaxCalls) /\ UNCHANGED projects
        \/ GetAvailableTransitions(h) /\ Free /\ UNCHANGED projects
        \/ CanTransitionTo(h) /\ Free /\ UNCHANGED projects

\* A task of any status and content, read from the store by the script
\* that holds it.
InitLoaded ==
    \E f \in Fixtures :
        /\ store = [t \in TaskIds |-> IF t = 1 THEN Row(f) ELSE NoTask]
        /\ req = [h \in Reqs |-> IF h = 1 THEN Held(1, FromDb(Row(f))) ELSE Idle]
        /\ audit = <<>>
        /\ last = NoCall
        /\ calls = 0
        /\ projects = NoProjects

\* A script calls the service and asks it what a task can do next.
SpecQuery == InitLoaded /\ [][NextQuery]_vars

-----------------------------------------------------------------------------
(* A script that follows one task through several calls *)

\* A task with an assignee, a description and a due date ahead, held by the
\* script that created it.
InitScript ==
    /\ \E row \in ViewRows :
           /\ store = [t \in TaskIds |-> IF t = 1 THEN row ELSE NoTask]
           /\ req = [h \in Reqs |-> IF h = 1 THEN Held(1, FromDb(row)) ELSE Idle]
    /\ audit = <<>>
    /\ last = NoCall
    /\ calls = 0
    /\ projects = NoProjects

NextScript ==
    \E h \in Reqs : DirectCall(h) /\ Count(MaxScriptCalls) /\ UNCHANGED projects

SpecScript == InitScript /\ [][NextScript]_vars

-----------------------------------------------------------------------------
(* The demo script: one task taken from creation to completion *)

Tomorrow == Today + 1

\* The users the script may run as.
DemoUsers == {user \in Users : is_authenticated(user)}

\* The user of the script: the one who made the first call, the assignee
\* of the task from then on.
DemoUser(h) ==
    IF req[h].obj.assignee # NoUser THEN req[h].obj.assignee ELSE last.user

\* The service calls of the script, by the number of steps made before.
DemoCalls ==
    {<<0, EM_PROGRESSO>>, <<2, EM_PROGRESSO>>, <<3, CONCLUIDA>>,
     <<5, CONCLUIDA>>, <<6, EM_PROGRESSO>>}

\* Descriptions of fifteen characters.
DemoDescs ==
    { Rep("x", MinDescLen + 5),
      <<" ">> \o Rep("x", MinDescLen + 4),
      <<" ">> \o Rep("x", MinDescLen + 3) \o <<" ">> }

\* task.<field> = value; task.save(): the object is changed in memory and
\* every column of its row is written from it.
SaveEdited(h, edited) ==
    /\ store' = [store EXCEPT ![req[h].task] = Row(edited)]
    /\ req' = [req EXCEPT ![h] = Held(req[h].task, edited)]
    /\ last' = [op |-> "save", h |-> h, task |-> req[h].task]
    /\ UNCHANGED audit

\* TaskWorkflowService.transition_status(task, <status>, user), with
\* nothing raising inside the atomic block.
DemoCall(h) ==
    /\ req[h].pc = "held"
    /\ \E new_status \in StatusChoices, user \in DemoUsers :
           /\ <<calls, new_status>> \in DemoCalls
           /\ calls > 0 => user = DemoUser(h)
           /\ IF Commits(req[h].obj, new_status, user)
              THEN \E reason \in Reasons :
                       Apply(h, new_status, user, reason, "none", TRUE)
              ELSE Apply(h, new_status, user, NoReason, "none", TRUE)
    /\ calls' = calls + 1

\* task.assignee = user, the due date set to tomorrow; task.save()
DemoAssign(h) ==
    /\ req[h].pc = "held"
    /\ calls = 1
    /\ \E kind \in {"date", "str"} :
           SaveEdited(h, [req[h].obj EXCEPT
                              !.assignee = DemoUser(h),
                              !.data_entrega = [kind |-> kind, day |-> Tomorrow]])
    /\ calls' = calls + 1

\* task.descricao = "..."; task.save()
DemoDescribe(h) ==
    /\ req[h].pc = "held"
    /\ calls = 4
    /\ \E descricao \in DemoDescs :
           SaveEdited(h, [req[h].obj EXCEPT !.descricao = descricao])
    /\ calls' = calls + 1

\* Task.objects.create(status='PENDENTE', data_entrega=...): no assignee,
\* the default empty description, any due date.
InitDemo ==
    /\ \E data_entrega \in [kind : {"date", "str"}, day : Days] :
           LET task == [status |-> PENDENTE, assignee |-> NoUser,
                        descricao |-> <<>>, data_entrega |-> data_entrega]
           IN  /\ store = [t \in TaskIds |-> IF t = 1 THEN Row(task) ELSE NoTask]
               /\ req = [h \in Reqs |-> IF h = 1 THEN Held(1, task) ELSE Idle]
    /\ audit = <<>>
    /\ last = NoCall
    /\ calls = 0
    /\ projects = NoProjects

NextDemo ==
    \E h \in Reqs :
        (DemoCall(h) \/ DemoAssign(h) \/ DemoDescribe(h)) /\ UNCHANGED projects

SpecDemo == InitDemo /\ [][NextDemo]_vars

-----------------------------------------------------------------------------
(* Creation of projects and tasks *)

\* A task dictionary of initial_tasks: a status or none, a due date (as a
\* string) or none.
TaskData ==
    [status : Targets \cup {Absent},
     data_entrega : [kind : {"none", "str"}, day : {MaxDay}]]

\* The lists of task dictionaries a caller may pass.
InitialTasks ==
    {<<>>} \cup {<<d>> : d \in TaskData}
           \cup {<<d, e>> : d \in TaskData, e \in TaskData}

\* Task(**task_data): the status passed, the default of the field when
\* none is passed; nothing is validated.
NewTask(task_data) ==
    [status |-> IF task_data.status = Absent THEN PENDENTE ELSE task_data.status,
     assignee |-> NoUser, descricao |-> <<>>,
     data_entrega |-> task_data.data_entrega]

\* The row bulk_create inserts for a task object.
Inserted(task) == [task EXCEPT !.data_entrega = task.data_entrega.day]

\* Where create_project_with_initial_tasks may raise besides its own
\* validation: Project.objects.create, logger.info(... user.username).
CreateFaults == {"none", "project", "log"}

\* A plausible slip: the decorator is missing.
atomic_none(raised, before, after) == after

\* @transaction.atomic: what was written is kept unless the call raised.
atomic(raised, before, after) == IF raised THEN before ELSE after

\* A plausible slip: equal dates are let through.
dates_rejected_before(data_inicio, data_fim) == data_fim < data_inicio

\* if project_data['data_fim'] <= project_data['data_inicio']: raise
dates_rejected(data_inicio, data_fim) == data_fim <= data_inicio

\* The task ids given to the rows of a bulk_create of n tasks.
NewIds(n) == {id \in TaskIds : id <= n}

\* create_project_with_initial_tasks(project_data, initial_tasks, user) on
\* an empty store, the project getting the id p: the result, and the rows
\* of the two tables after the call.  bulk_create raises IntegrityError
\* when a task has no due date.
create_project_with_initial_tasks(p, data_inicio, data_fim, initial_tasks, fault) ==
    LET n == Len(initial_tasks)
        tasks == [i \in 1..n |-> NewTask(initial_tasks[i])]
        result ==
            IF dates_rejected(data_inicio, data_fim) THEN "ValidationError"
            ELSE IF fault = "project" THEN "ProjectCreateFailed"
            ELSE IF \E i \in 1..n : tasks[i].data_entrega.kind = "none"
                THEN "IntegrityError"
            ELSE IF fault = "log" THEN "LogFailed"
            ELSE OK
        project_written ==
            ~dates_rejected(data_inicio, data_fim) /\ fault # "project"
        tasks_written == project_written /\ result \in {OK, "LogFailed"}
        written_projects ==
            IF project_written
            THEN [projects EXCEPT ![p] =
                     [exists |-> TRUE, data_inicio |-> data_inicio,
                      data_fim |-> data_fim,
                      tasks |-> IF tasks_written THEN NewIds(n) ELSE {}]]
            ELSE projects
        written_store ==
            IF tasks_written
            THEN [id \in TaskIds |->
                     IF id \in NewIds(n) THEN Inserted(tasks[id]) ELSE store[id]]
            ELSE store
    IN  [result |-> result,
         projects |-> atomic(result # OK, projects, written_projects),
         store |-> atomic(result # OK, store, written_store)]

\* A script calls the service, once, while no project and no task exists.
CreateProject ==
    /\ calls = 0
    /\ calls' = calls + 1
    /\ \A p \in ProjectIds : ~projects[p].exists
    /\ \A id \in TaskIds : store[id] = NoTask
    /\ \E p \in ProjectIds, data_inicio \in Days, data_fim \in Days,
          initial_tasks \in InitialTasks, fault \in CreateFaults :
           LET out == create_project_with_initial_tasks(
                          p, data_inicio, data_fim, initial_tasks, fault)
           IN  /\ store' = out.store
               /\ projects' = out.projects
               /\ last' = [op |-> "create_project", project |-> p,
                           data_inicio |-> data_inicio, data_fim |-> data_fim,
                           initial_tasks |-> initial_tasks, fault |-> fault,
                           result |-> out.result]
    /\ UNCHANGED <<req, audit>>

\* The id the store gives to the next task row.
NextTaskId ==
    CHOOSE id \in TaskIds :
        store[id] = NoTask /\ \A j \in TaskIds : store[j] = NoTask => id <= j

\* Bodies of POST /api/tasks/: any status or none, with or without an
\* assignee and a description.
PostData ==
    [status : Targets \cup {Absent}, assignee : {NoUser, "dev1"},
     descricao : {<<>>, Rep("x", MinDescLen)}, data_entrega : Days]

\* TaskSerializer on a creation (self.instance is None): the field
\* validators of status and data_entrega, then validate().
serializer_validate_new(project, data) ==
    IF data.status # Absent /\ data.status \notin StatusChoices THEN "status"
    ELSE IF data.data_entrega < Today THEN "data_entrega"
    ELSE IF data.data_entrega < project.data_inicio
            \/ data.data_entrega > project.data_fim THEN "data_entrega"
    ELSE IF data.status = EM_PROGRESSO /\ data.assignee = NoUser THEN "assignee"
    ELSE IF data.status = CONCLUIDA /\ data.descricao = <<>> THEN "descricao"
    ELSE OK

\* TaskSerializer.create: the status is set to PENDENTE only when the body
\* has none.
serializer_create(data) ==
    [status |-> IF data.status = Absent THEN PENDENTE ELSE data.status,
     assignee |-> data.assignee, descricao |-> data.descricao,
     data_entrega |-> data.data_entrega]

\* TaskViewSet.create: POST /api/tasks/ for a project that exists.
CreateTask ==
    /\ \E id \in TaskIds : store[id] = NoTask
    /\ \E p \in ProjectIds, data \in PostData :
           LET err == serializer_validate_new(projects[p], data)
               id == NextTaskId
           IN  /\ projects[p].exists
               /\ store' = IF err = OK
                           THEN [store EXCEPT ![id] = serializer_create(data)]
                           ELSE store
               /\ projects' = IF err = OK
                              THEN [projects EXCEPT ![p].tasks = @ \cup {id}]
                              ELSE projects
               /\ last' = [op |-> "create_task", via |-> "TaskSerializer",
                           task |-> id, status |-> data.status, result |-> err]
    /\ UNCHANGED <<req, audit, calls>>

\* TaskCreateSerializer.validate: the due date lies in the project period.
create_serializer_validate(project, data) ==
    IF data.data_entrega < project.data_inicio
        \/ data.data_entrega > project.data_fim THEN "data_entrega"
    ELSE OK

\* TaskCreateSerializer.create: status=Task.StatusChoices.PENDENTE.
create_serializer_create(data) ==
    [status |-> PENDENTE, assignee |-> data.assignee,
     descricao |-> data.descricao, data_entrega |-> data.data_entrega]

\* TaskCreateSerializer: is_valid() and save() for a project that exists;
\* the serializer has no status field, a status in the body is dropped.
CreateTaskPlain ==
    /\ \E id \in TaskIds : store[id] = NoTask
    /\ \E p \in ProjectIds, data \in PostData :
           LET err == create_serializer_validate(projects[p], data)
               id == NextTaskId
           IN  /\ projects[p].exists
               /\ store' = IF err = OK
                           THEN [store EXCEPT ![id] = create_serializer_create(data)]
                           ELSE store
               /\ projects' = IF err = OK
                              THEN [projects EXCEPT ![p].tasks = @ \cup {id}]
                              ELSE projects
               /\ last' = [op |-> "create_task", via |-> "TaskCreateSerializer",
                           task |-> id, status |-> data.status, result |-> err]
    /\ UNCHANGED <<req, audit, calls>>

\* Nothing exists yet.
InitEmpty ==
    /\ store = [t \in TaskIds |-> NoTask]
    /\ req = [h \in Reqs |-> Idle]
    /\ audit = <<>>
    /\ last = NoCall
    /\ calls = 0
    /\ projects = NoProjects

NextCreate == CreateProject \/ CreateTask \/ CreateTaskPlain

\* Projects and tasks come into being.
SpecCreate == InitEmpty /\ [][NextCreate]_vars


-----------------------------------------------------------------------------
(* The summary of a project *)

\* The tasks table of a project that is summarised.
SummaryIds == 1 .. MaxTasks

\* A stored task of the given status.
SummaryRow(status) ==
    [status |-> status, assignee |-> NoUser, descricao |-> <<>>,
     data_entrega |-> MaxDay]

\* tasks.filter(status=...).count()
filter_count(tasks, status) ==
    Cardinality({id \in tasks : store[id].status = status})

\* round(x, 2) of x = (num / den) * 100, in hundredths: the nearest
\* hundredth (no quotient of 100 * num by den < 32 lies halfway).
round2(num, den) == (20000 * num + den) \div (2 * den)

\* _calculate_progress with the cancelled tasks left out of the total.
calculate_progress_active(tasks) ==
    LET total == Cardinality(tasks) - filter_count(tasks, CANCELADA)
    IN  IF total = 0 THEN 0
        ELSE round2(filter_count(tasks, CONCLUIDA), total)

\* ProjectService._calculate_progress, in hundredths of a percent.
calculate_progress(tasks) ==
    LET total == Cardinality(tasks)
    IN  IF total = 0 THEN 0
        ELSE round2(filter_count(tasks, CONCLUIDA), total)

\* ProjectService.get_project_summary
get_project_summary(p) ==
    LET tasks == projects[p].tasks
    IN  [id |-> p,
         total_tasks |-> Cardinality(tasks),
         tasks_pendentes |-> filter_count(tasks, PENDENTE),
         tasks_em_progresso |-> filter_count(tasks, EM_PROGRESSO),
         tasks_concluidas |-> filter_count(tasks, CONCLUIDA),
         tasks_canceladas |-> filter_count(tasks, CANCELADA),
         progress_percentage |-> calculate_progress(tasks)]

\* A script asks for the summary of a project.
GetProjectSummary ==
    \E p \in ProjectIds :
        /\ projects[p].exists
        /\ last' = [op |-> "summary", summary |-> get_project_summary(p)]
        /\ UNCHANGED <<store, req, audit, calls, projects>>

\* A project with some of the stored tasks, each of any stored status.
InitSummary ==
    /\ \E live \in SUBSET SummaryIds, status \in [SummaryIds -> Targets] :
           /\ store = [id \in SummaryIds |->
                          IF id \in live THEN SummaryRow(status[id]) ELSE NoTask]
           /\ \E mine \in SUBSET live :
                  projects = [p \in ProjectIds |-> [tasks |-> mine, exists |-> TRUE]]
    /\ req = [h \in Reqs |-> Idle]
    /\ audit = <<>>
    /\ last = NoCall
    /\ calls = 0

NextSummary == GetProjectSummary

SpecSummary == InitSummary /\ [][NextSummary]_vars


-----------------------------------------------------------------------------
(* Two tasks, each followed by its own thread *)

\* What a call can be given: a target, a user and the place where the
\* atomic block raises, if it is reached.
CallInputs == [new_status : Targets, user : Users, fault : Faults]

\* The lists of VALID_TRANSITIONS, in the order they are written.
valid_next_statuses(old_status) ==
    CASE old_status = PENDENTE -> <<EM_PROGRESSO, CANCELADA>>
      [] old_status = EM_PROGRESSO -> <<CONCLUIDA, CANCELADA, PENDENTE>>
      [] old_status = CONCLUIDA -> <<>>
      [] old_status = CANCELADA -> <<PENDENTE>>
      [] OTHER -> <<>>

\* ', '.join(list): the items with a separator between them.
RECURSIVE join(_)
join(list) ==
    IF Len(list) <= 1 THEN list
    ELSE <<Head(list), ", ">> \o join(Tail(list))

\* The message that lists the statuses the target allows.
transition_error_of_target(old_status, new_status) ==
    [from |-> old_status, to |-> new_status,
     valid |-> join(valid_next_statuses(new_status))]

\* The message of the ValidationError that _validate_transition raises:
\* "... mudar de '<old>' para '<new>'. Estados validos: <list>".
transition_error(old_status, new_status) ==
    [from |-> old_status, to |-> new_status,
     valid |-> join(valid_next_statuses(old_status))]

NoError == [from |-> "none", to |-> "none", valid |-> <<>>]

\* The inputs that make a difference for a call on the object: the place
\* of a failure matters only when the call reaches the atomic block.
InputsFor(task) ==
    {in \in CallInputs :
        in.fault # "none" => Commits(task, in.new_status, in.user)}

\* The user a thread runs as: the assignee of the tasks, or a staff user.
ThreadUser(h) == IF h = 1 THEN "dev1" ELSE "admin"

\* What one transition_status call by the holder h leaves behind: the
\* store, the objects held, the audit records emitted and the result.
Effect(db, h, in) ==
    LET id == db.req[h].task
        out == transition_status(id, db.req[h].obj, in.new_status, in.user,
                                 NoReason, in.fault)
    IN  [store |-> IF out.saved THEN save(db.store, id, out.obj) ELSE db.store,
         req |-> [db.req EXCEPT ![h] = Held(id, out.obj)],
         emitted |-> out.emitted,
         result |-> out.result,
         error |-> IF out.result = "InvalidTransition"
                   THEN transition_error(db.req[h].obj.status, in.new_status)
                   ELSE NoError]

\* The thread h calls the service on the task object it holds.
ThreadCall(h) ==
    /\ req[h].pc = "held"
    /\ \E in \in InputsFor(req[h].obj) :
           /\ in.user = ThreadUser(h)
           /\ LET eff == Effect([store |-> store, req |-> req], h, in)
              IN  /\ Len(audit) + Len(eff.emitted) <= MaxAudit
                  /\ store' = eff.store
                  /\ req' = eff.req
                  /\ audit' = audit \o eff.emitted
                  /\ last' = [op |-> "thread_call", h |-> h, task |-> req[h].task,
                              old |-> req[h].obj.status, new |-> in.new_status,
                              result |-> eff.result, error |-> eff.error]

\* Two stored tasks, not started yet or in progress, with an assignee, a
\* description and a due date ahead; the thread h has read the task h.
InitTwo ==
    /\ \E rows \in [TaskIds -> ViewRows] :
           /\ store = rows
           /\ req = [h \in Reqs |-> Held(h, FromDb(rows[h]))]
    /\ audit = <<>>
    /\ last = NoCall
    /\ calls = 0
    /\ projects = NoProjects

NextTwo ==
    \E h \in Reqs : ThreadCall(h) /\ Count(MaxRequests) /\ UNCHANGED projects

\* Two threads, each calling the service on its own task.
SpecTwo == InitTwo /\ [][NextTwo]_vars


-----------------------------------------------------------------------------
(* The summary of a project, query by query *)

\* The queries get_project_summary sends, in the order of the dictionary:
\* tasks.count(), the four filtered counts, then the two counts of
\* _calculate_progress.
SummaryQueries ==
    <<"all", PENDENTE, EM_PROGRESSO, CONCLUIDA, CANCELADA, "all", CONCLUIDA>>

\* One query against the store as it is when the query runs.
run_query(tasks, query) ==
    IF query = "all" THEN Cardinality(tasks) ELSE filter_count(tasks, query)

\* The dictionary returned once every query has answered.
summary_of(p, counts) ==
    [id |-> p,
     total_tasks |-> counts[1],
     tasks_pendentes |-> counts[2],
     tasks_em_progresso |-> counts[3],
     tasks_concluidas |-> counts[4],
     tasks_canceladas |-> counts[5],
     progress_percentage |->
         IF counts[6] = 0 THEN 0 ELSE round2(counts[7], counts[6])]

Summarising(p, counts) == [pc |-> "summary", project |-> p, counts |-> counts]

\* The next query of a summary under way; the answer of the last one ends
\* the call (with no task, the sixth one does).
SummaryStep(h) ==
    /\ req[h].pc = "summary"
    /\ LET p == req[h].project
           n == Len(req[h].counts) + 1
           counts == Append(req[h].counts, run_query(projects[p].tasks, SummaryQueries[n]))
           done == n = Len(SummaryQueries) \/ (n = 6 /\ counts[6] = 0)
       IN  IF done
           THEN /\ req' = [req EXCEPT ![h] = Idle]
                /\ last' = [op |-> "summary",
                            summary |-> summary_of(p, IF n = 6 THEN Append(counts, 0) ELSE counts)]
           ELSE /\ req' = [req EXCEPT ![h] = Summarising(p, counts)]
                /\ UNCHANGED last
    /\ UNCHANGED <<store, audit, projects>>

\* A project whose tasks are not started yet or in progress; a summary of
\* it begins while a staff user holds its first task.
InitSteps ==
    /\ \E status \in [SummaryIds -> {PENDENTE, EM_PROGRESSO}] :
           /\ store = [id \in SummaryIds |-> SummaryRow(status[id])]
           /\ req = [h \in Reqs |->
                        IF h = 1 THEN Summarising(1, <<>>)
                        ELSE Held(1, FromDb(SummaryRow(status[1])))]
    /\ projects = [p \in ProjectIds |-> [tasks |-> SummaryIds, exists |-> TRUE]]
    /\ audit = <<>>
    /\ last = NoCall
    /\ calls = 0

NextSteps ==
    \E h \in Reqs :
        \/ SummaryStep(h) /\ Free
        \/ ThreadCall(h) /\ Count(MaxCalls) /\ UNCHANGED projects

\* A summary computed while transitions on the project's tasks commit.
SpecSteps == InitSteps /\ [][NextSteps]_vars

-----------------------------------------------------------------------------
(* Properties *)

\* The last operation was a transition_status call.
Called == last.op = "transition"

\* The object the last direct call was made on, as it was when the call
\* started: a call changes nothing of an object but its status.
CalledTask == [req[last.h].obj EXCEPT !.status = last.old]

\* C1: a call rejected with ValidationError or PermissionDenied leaves the
\* status of the object passed in and the stored status as they were before
\* the call.
C1_RejectedCallKeepsStatus ==
    (Called /\ last.result \in Rejections) =>
        /\ last.obj_status = last.old
        /\ store[last.task].status = last.stored

C1_Witness ==
    /\ Called
    /\ last.result = "InsufficientPrivilege"
    /\ last.new = CANCELADA

C3_LaterWriterSeesCommitted ==
    (Called /\ last.result = "returned" /\ last.new # last.old) =>
        last.old = last.stored

\* C4 as claimed: once the stored status is CONCLUIDA it stays CONCLUIDA
\* through every later transition call.
C4_DoneIsTerminal ==
    [][\A id \in TaskIds :
          store[id].status = CONCLUIDA => store'[id].status = CONCLUIDA]_vars

\* C5 as claimed: the stored status of a task changes only in a step that
\* is a successful transition_status call on that task.
C5_StatusOnlyByTransition ==
    [][\A id \in TaskIds :
          store'[id].status # store[id].status =>
              /\ last'.op = "transition"
              /\ last'.task = id
              /\ last'.result = "returned"]_vars

CheckTable(task, new_status) ==
    [fails |-> new_status \notin VALID_TRANSITIONS(task.status),
     err |-> "InvalidTransition"]
CheckAssignee(task, new_status) ==
    [fails |-> new_status = EM_PROGRESSO /\ task.assignee = NoUser,
     err |-> "MissingAssignee"]
CheckDueDate(task, new_status) ==
    [fails |-> new_status = EM_PROGRESSO /\ task.data_entrega.kind = "date"
                  /\ task.data_entrega.day < Today,
     err |-> "PastDueDate"]
CheckNotes(task, new_status) ==
    [fails |-> new_status = CONCLUIDA /\ Len(strip(task.descricao)) < MinDescLen,
     err |-> "MissingCompletionNotes"]
CheckIsAssignee(task, new_status, user) ==
    [fails |-> new_status = CONCLUIDA /\ task.assignee # NoUser
                  /\ task.assignee # user /\ user # "admin",
     err |-> "NotAssignee"]
CheckStaff(task, new_status, user) ==
    [fails |-> new_status = CANCELADA /\ task.status = EM_PROGRESSO /\ user # "admin",
     err |-> "InsufficientPrivilege"]
CheckAuthenticated(user) ==
    [fails |-> user = "anon", err |-> "Unauthenticated"]

\* The error of the first failing check of a list, OK when none fails.
FirstError(checks) ==
    IF \E i \in 1..Len(checks) : checks[i].fails
    THEN checks[CHOOSE i \in 1..Len(checks) :
                    /\ checks[i].fails
                    /\ \A j \in 1..(i - 1) : ~checks[j].fails].err
    ELSE OK

\* The order the claim states: authentication, table, rules, authorization.
ClaimedOrder(task, new_status, user) ==
    << CheckAuthenticated(user), CheckTable(task, new_status),
       CheckAssignee(task, new_status), CheckDueDate(task, new_status),
       CheckNotes(task, new_status), CheckIsAssignee(task, new_status, user),
       CheckStaff(task, new_status, user) >>

\* The order of the code: table, rules, authorization, authentication.
CodeOrder(task, new_status, user) ==
    << CheckTable(task, new_status),
       CheckAssignee(task, new_status), CheckDueDate(task, new_status),
       CheckNotes(task, new_status), CheckIsAssignee(task, new_status, user),
       CheckStaff(task, new_status, user), CheckAuthenticated(user) >>

\* What a call that is no self-transition answers when its checks run in
\* the given order: the first error, or a commit.
AnswersInOrder(checks) ==
    IF FirstError(checks) # OK
    THEN last.result = FirstError(checks)
    ELSE last.result \notin Rejections

C8_SelfTransitionIsNoOp ==
    [][(last'.op = "transition" /\ calls' # calls /\ last'.new = last'.old) =>
          /\ last'.result = "returned"
          /\ ~last'.dispatched
          /\ UNCHANGED <<store, audit, req>>]_vars

\* CONCLUIDA -> CONCLUIDA asked by the anonymous user.
C8_Witness ==
    /\ Called
    /\ last.old = CONCLUIDA /\ last.new = CONCLUIDA
    /\ last.user = "anon"
    /\ last.result = "returned"

\* C9 as claimed: a call either changes the stored status and emits its
\* audit record, or does neither; a call that fails leaves the stored
\* status and the audit log as they were.
C9_StatusAndAuditTogether ==
    [][(last'.op = "transition" /\ calls' # calls) =>
          /\ (audit' # audit) <=> (store' # store)
          /\ last'.result # "returned" => (store' = store /\ audit' = audit)]_vars

\* C10 as claimed: after a post-transition action raised, the stored status
\* is the new status and the audit record of the transition is kept.
C10_PostFailureKeepsCommit ==
    (Called /\ last.fault = "post") =>
        /\ store[last.task].status = last.new
        /\ \E i \in 1..Len(audit) :
               audit[i].task = last.task /\ audit[i].new = last.new

\* The last call was made with nothing raising inside the atomic block.
NoFault == last.fault = "none"

\* C11: for a PENDENTE task whose due date is not in the past and an
\* authenticated actor, the call to EM_PROGRESSO fails with MissingAssignee
\* exactly when the assignee is unset; with the assignee set it succeeds and
\* the returned task and its row have status EM_PROGRESSO.
C11_MissingAssigneeIff ==
    (Called /\ last.old = PENDENTE /\ last.new = EM_PROGRESSO
        /\ last.user # "anon" /\ CalledTask.data_entrega.day >= Today) =>
        /\ last.result = "MissingAssignee" <=> CalledTask.assignee = NoUser
        /\ (CalledTask.assignee # NoUser /\ NoFault) =>
              /\ last.result = "returned"
              /\ last.obj_status = EM_PROGRESSO
              /\ store[last.task].status = EM_PROGRESSO

\* The task has no assignee and its due date is today.
C11_Witness ==
    /\ Called
    /\ last.old = PENDENTE /\ last.new = EM_PROGRESSO
    /\ last.user = "dev1"
    /\ CalledTask.assignee = NoUser
    /\ CalledTask.data_entrega.day = Today
    /\ last.result = "MissingAssignee"

\* C12 as claimed: a call from PENDENTE to EM_PROGRESSO on a task with an
\* assignee fails with PastDueDate exactly when the due date is before
\* today, whether the object holds it as a date or as the string it was
\* created with.
C12_PastDueDateAnyRepresentation ==
    (Called /\ last.old = PENDENTE /\ last.new = EM_PROGRESSO
        /\ CalledTask.assignee # NoUser) =>
        (last.result = "PastDueDate" <=> CalledTask.data_entrega.day < Today)

\* The number of characters of a description from its first to its last
\* non-blank character, 0 when it has none.
TrimmedLen(s) ==
    LET letters == {i \in 1..Len(s) : s[i] # " "}
    IN  IF letters = {} THEN 0
        ELSE (CHOOSE i \in letters : \A j \in letters : j <= i)
             - (CHOOSE i \in letters : \A j \in letters : i <= j) + 1

\* The actor may complete the task: authenticated, and the assignee or staff
\* when the task has an assignee.
MayComplete(task, user) ==
    /\ user # "anon"
    /\ task.assignee = NoUser \/ task.assignee = user \/ user = "admin"

\* C13: for an EM_PROGRESSO task and an authenticated actor allowed to
\* complete it, the call to CONCLUIDA fails with MissingCompletionNotes
\* exactly when the description is empty or shorter than 10 characters
\* once trimmed, and succeeds from exactly 10 trimmed characters on.
C13_CompletionNotes ==
    (Called /\ last.old = EM_PROGRESSO /\ last.new = CONCLUIDA
        /\ MayComplete(CalledTask, last.user)) =>
        /\ last.result = "MissingCompletionNotes"
              <=> TrimmedLen(CalledTask.descricao) < MinDescLen
        /\ (TrimmedLen(CalledTask.descricao) >= MinDescLen /\ NoFault) =>
              /\ last.result = "returned"
              /\ last.obj_status = CONCLUIDA
              /\ store[last.task].status = CONCLUIDA

\* Nine letters between blanks: eleven characters, nine once trimmed.
C13_Witness ==
    /\ Called
    /\ last.old = EM_PROGRESSO /\ last.new = CONCLUIDA
    /\ last.user = "dev1" /\ CalledTask.assignee = "dev1"
    /\ Len(CalledTask.descricao) = MinDescLen + 1
    /\ TrimmedLen(CalledTask.descricao) = MinDescLen - 1
    /\ last.result = "MissingCompletionNotes"

\* C14: for an EM_PROGRESSO task with a sufficient description, the call
\* to CONCLUIDA fails with NotAssignee exactly when the task has an
\* assignee, the actor is not that assignee and the actor is not staff; it
\* succeeds for the assignee, for staff, and for any authenticated actor
\* when the assignee is unset.
C14_NotAssignee ==
    (Called /\ last.old = EM_PROGRESSO /\ last.new = CONCLUIDA
        /\ TrimmedLen(CalledTask.descricao) >= MinDescLen) =>
        /\ last.result = "NotAssignee" <=>
              /\ CalledTask.assignee # NoUser
              /\ CalledTask.assignee # last.user
              /\ last.user # "admin"
        /\ (MayComplete(CalledTask, last.user) /\ NoFault) =>
              /\ last.result = "returned"
              /\ last.obj_status = CONCLUIDA
              /\ store[last.task].status = CONCLUIDA

\* Staff complete a task assigned to somebody else.
C14_Witness ==
    /\ Called
    /\ last.old = EM_PROGRESSO /\ last.new = CONCLUIDA
    /\ last.user = "admin" /\ CalledTask.assignee = "dev1"
    /\ last.result = "returned"
    /\ store[last.task].status = CONCLUIDA

\* C15: the call from EM_PROGRESSO to CANCELADA fails with
\* InsufficientPrivilege for every authenticated actor who is not staff,
\* the assignee included, and succeeds for authenticated staff, whatever
\* the assignee, the description and the due date of the task.
C15_OnlyStaffCancelInProgress ==
    (Called /\ last.old = EM_PROGRESSO /\ last.new = CANCELADA
        /\ last.user # "anon") =>
        /\ last.user # "admin" => last.result = "InsufficientPrivilege"
        /\ (last.user = "admin" /\ NoFault) =>
              /\ last.result = "returned"
              /\ last.obj_status = CANCELADA
              /\ store[last.task].status = CANCELADA

\* The assignee asks to cancel their own task in progress.
C15_Witness ==
    /\ Called
    /\ last.old = EM_PROGRESSO /\ last.new = CANCELADA
    /\ last.user = "dev1" /\ CalledTask.assignee = "dev1"
    /\ last.result = "InsufficientPrivilege"

\* C16 as claimed: the call from CANCELADA to PENDENTE succeeds for every
\* actor and every task content, and the status becomes PENDENTE.
C16_ReopenAlwaysSucceeds ==
    (Called /\ last.old = CANCELADA /\ last.new = PENDENTE /\ NoFault) =>
        /\ last.result = "returned"
        /\ last.obj_status = PENDENTE
        /\ store[last.task].status = PENDENTE

\* C16 as amended: the call from CANCELADA to PENDENTE succeeds for every
\* authenticated actor, staff or not, assignee or not, and every task
\* content, and the status becomes PENDENTE; for an actor that is not
\* authenticated it fails with Unauthenticated and changes nothing.
C16_ReopenByAuthenticated ==
    (Called /\ last.old = CANCELADA /\ last.new = PENDENTE /\ NoFault) =>
        IF last.user # "anon"
        THEN /\ last.result = "returned"
             /\ last.obj_status = PENDENTE
             /\ store[last.task].status = PENDENTE
        ELSE /\ last.result = "Unauthenticated"
             /\ last.obj_status = CANCELADA
             /\ store[last.task].status = last.stored

\* An actor who is neither staff nor the assignee reopens a task with no
\* assignee, no description and a due date in the past.
C16_Witness ==
    /\ Called
    /\ last.old = CANCELADA /\ last.new = PENDENTE
    /\ last.user = "dev1"
    /\ CalledTask.assignee = NoUser /\ CalledTask.descricao = <<>>
    /\ CalledTask.data_entrega = [kind |-> "date", day |-> Today - 1]
    /\ last.result = "returned"
    /\ store[last.task].status = PENDENTE

\* C17: get_available_transitions on a CONCLUIDA task returns the empty
\* set whatever the other fields of the task, before and after every
\* operation of the service.
C17_DoneOffersNothing ==
    /\ (last.op = "available" /\ last.status = CONCLUIDA) => last.result = {}
    /\ \A id \in TaskIds :
           (store[id] # NoTask /\ store[id].status = CONCLUIDA) =>
               get_available_transitions(FromDb(store[id])) = {}

\* The script completed the task and then asks what it offers.
C17_Witness ==
    /\ last.op = "available"
    /\ calls = 1
    /\ last.status = CONCLUIDA
    /\ store[last.task].status = CONCLUIDA
    /\ Len(audit) = 1
    /\ last.result = {}

\* What the read-only operations answer depends on the status alone and is
\* the table entry of that status.
AnswersFromTable ==
    /\ last.op = "available" =>
           /\ last.result = VALID_TRANSITIONS(last.status)
           /\ last.status = req[last.h].obj.status
    /\ last.op = "can" =>
           /\ last.result = (last.new \in VALID_TRANSITIONS(last.status))
           /\ last.status = req[last.h].obj.status

\* C18: get_available_transitions(task) is VALID_TRANSITIONS[task.status]
\* and can_transition_to(task, target) is true iff the target is in that
\* set, whatever the assignee, the description and the due date; neither
\* evaluates a business rule nor changes the store, the object or the audit
\* log.
C18_ReadOnlyTableLookup ==
    /\ []AnswersFromTable
    /\ [][last'.op \in {"available", "can"} /\ calls' = calls =>
             UNCHANGED <<store, req, audit>>]_vars

\* can_transition_to says yes to starting a task without an assignee, a
\* call that transition_status rejects for every actor.
C18_Witness ==
    /\ last.op = "can"
    /\ last.new = EM_PROGRESSO
    /\ last.result = TRUE
    /\ req[last.h].obj.assignee = NoUser
    /\ \A user \in Users :
           transition_status(last.task, req[last.h].obj, last.new, user,
                             NoReason, "none").result \in Rejections

\* The records a step appends to the audit log.
Emitted == SubSeq(audit', Len(audit) + 1, Len(audit'))

\* C19: a successful call whose target differs from the current status
\* appends exactly one audit record, carrying the task id, the status
\* before the call, the status after it, the acting user and the reason
\* given; a rejected call and a self-transition append none; the records
\* already emitted are never changed or removed.
C19_OneAuditRecordPerTransition ==
    [][/\ Len(audit') >= Len(audit)
       /\ SubSeq(audit', 1, Len(audit)) = audit
       /\ (last'.op = "transition" /\ calls' # calls) =>
             /\ (last'.result = "returned" /\ last'.new # last'.old) =>
                    Emitted = << [task |-> last'.task, old |-> last'.old,
                                  new |-> last'.obj_status, user |-> last'.user,
                                  reason |-> last'.reason] >>
             /\ (last'.result \in Rejections \/ last'.new = last'.old) =>
                    Emitted = <<>>]_vars

\* A second transition of the task, made with a reason, is recorded after
\* the first one.
C19_Witness ==
    /\ Called
    /\ last.result = "returned" /\ last.reason = "motivo"
    /\ Len(audit) = 2
    /\ audit[1] = [task |-> 1, old |-> PENDENTE, new |-> EM_PROGRESSO,
                   user |-> "dev1", reason |-> NoReason]
    /\ audit[2] = [task |-> 1, old |-> EM_PROGRESSO, new |-> CONCLUIDA,
                   user |-> "admin", reason |-> "motivo"]

\* The object the script holds and its row both have the given status.
StatusIs(status) ==
    /\ req[last.h].obj.status = status
    /\ store[last.task].status = status

\* C20: the script's task, created PENDENTE with no assignee and an empty
\* description, is refused EM_PROGRESSO with MissingAssignee; once it has
\* the user as assignee and tomorrow as due date the same call succeeds and
\* the status is EM_PROGRESSO; CONCLUIDA is refused with
\* MissingCompletionNotes; with a description of fifteen characters it
\* succeeds and the status is CONCLUIDA; EM_PROGRESSO is then refused with
\* InvalidTransition.
C20_Scenario ==
    /\ calls = 1 => Called /\ last.result = "MissingAssignee" /\ StatusIs(PENDENTE)
    /\ calls = 3 => Called /\ last.result = "returned" /\ StatusIs(EM_PROGRESSO)
    /\ calls = 4 => Called /\ last.result = "MissingCompletionNotes"
                       /\ StatusIs(EM_PROGRESSO)
    /\ calls = 6 => Called /\ last.result = "returned" /\ StatusIs(CONCLUIDA)
    /\ calls = 7 => Called /\ last.result = "InvalidTransition"
                       /\ StatusIs(CONCLUIDA)

\* The end of the script: both transitions are in the audit log and the
\* last call was refused.
C20_Witness ==
    /\ calls = 7
    /\ Called /\ last.old = CONCLUIDA /\ last.new = EM_PROGRESSO
    /\ last.result = "InvalidTransition"
    /\ last.user = "dev1" /\ req[last.h].obj.assignee = "dev1"
    /\ Len(req[last.h].obj.descricao) = MinDescLen + 5
    /\ Len(audit) = 2
    /\ audit[1].new = EM_PROGRESSO /\ audit[2].new = CONCLUIDA

\* The last operation was a create_project_with_initial_tasks call.
Created == last.op = "create_project"

\* No project and no task is in the store.
NothingExists ==
    /\ \A p \in ProjectIds : ~projects[p].exists
    /\ \A id \in TaskIds : store[id] = NoTask

\* C21 as claimed: every task created by
\* create_project_with_initial_tasks has status PENDENTE, whatever status
\* its dictionary carried.
C21_InitialTasksPending ==
    (Created /\ last.result = OK) =>
        \A id \in projects[last.project].tasks : store[id].status = PENDENTE

\* C22: after create_project_with_initial_tasks either the project and
\* every one of its initial tasks exist, or, when the date validation, the
\* creation of the project or of a task, or anything after them failed,
\* neither the project nor any task exists.
C22_AllOrNothing ==
    Created =>
        /\ last.result = OK <=>
              /\ last.data_fim > last.data_inicio
              /\ last.fault = "none"
              /\ \A i \in 1..Len(last.initial_tasks) :
                     last.initial_tasks[i].data_entrega.kind # "none"
        /\ last.result = OK =>
              /\ projects[last.project].exists
              /\ Cardinality(projects[last.project].tasks) = Len(last.initial_tasks)
              /\ \A id \in projects[last.project].tasks : store[id] # NoTask
        /\ last.result # OK => NothingExists

\* The second of two tasks has no due date: bulk_create fails after the
\* project was inserted, and nothing is left.
C22_Witness ==
    /\ Created
    /\ last.data_fim > last.data_inicio
    /\ Len(last.initial_tasks) = 2
    /\ last.initial_tasks[1].data_entrega.kind = "str"
    /\ last.initial_tasks[2].data_entrega.kind = "none"
    /\ last.result = "IntegrityError"
    /\ NothingExists

\* C23: project data whose end date is the start date or earlier is
\* rejected with a validation error and nothing is created; every project
\* in the store ends after it starts.
C23_EndAfterStart ==
    /\ (Created /\ last.data_fim <= last.data_inicio) =>
           last.result = "ValidationError" /\ NothingExists
    /\ \A p \in ProjectIds :
           projects[p].exists => projects[p].data_fim > projects[p].data_inicio

\* The end date is the start date.
C23_Witness ==
    /\ Created
    /\ last.data_fim = last.data_inicio
    /\ Len(last.initial_tasks) = 1
    /\ last.fault = "none"
    /\ last.result = "ValidationError"
    /\ NothingExists

\* C25 as claimed: the first stored status of every task is PENDENTE,
\* whichever way the task is created.
C25_NewTasksPending ==
    [][\A id \in TaskIds :
          (store[id] = NoTask /\ store'[id] # NoTask) =>
              store'[id].status = PENDENTE]_vars


Summarised == last.op = "summary"

\* The tasks of the summarised project, and those of one status.
TasksOf(p) == projects[p].tasks
TasksIn(p, status) == {id \in TasksOf(p) : store[id].status = status}

\* C24: the progress is 0.0 for a project without tasks and otherwise the
\* hundredth nearest to 100 * done / total, where total counts the tasks of
\* every status, the cancelled ones included; one done, one cancelled and
\* two pending tasks give 25.00.
C24_Progress ==
    Summarised =>
        LET s == last.summary
            total == Cardinality(TasksOf(s.id))
            done == Cardinality(TasksIn(s.id, CONCLUIDA))
            off == s.progress_percentage * total - 10000 * done
        IN  /\ s.total_tasks = total
            /\ total = 0 => s.progress_percentage = 0
            /\ total > 0 => (2 * off <= total /\ -2 * off <= total)
            /\ ( /\ total = 4 /\ done = 1
                 /\ Cardinality(TasksIn(s.id, CANCELADA)) = 1
                 /\ Cardinality(TasksIn(s.id, PENDENTE)) = 2 )
               => s.progress_percentage = 2500

C24_Witness ==
    /\ Summarised
    /\ last.summary.total_tasks = 4
    /\ last.summary.tasks_concluidas = 1
    /\ last.summary.tasks_canceladas = 1
    /\ last.summary.tasks_pendentes = 2
    /\ last.summary.progress_percentage = 2500


\* C26 as claimed: every stored task has one of the four statuses, and a
\* call whose target is none of them and differs from the current status
\* is rejected as an invalid transition and stores nothing.
C26_StatusInChoices ==
    /\ \A id \in TaskIds :
           store[id] # NoTask => store[id].status \in StatusChoices
    /\ (last.op = "transition" /\ last.new \notin StatusChoices
            /\ last.new # last.old) =>
           (last.result = "InvalidTransition"
                /\ store[last.task].status = last.stored)


\* C27: a call on one task leaves every field of the other task's row as
\* it was, and two calls on different tasks leave the same store, the same
\* objects and the same two results whichever of them runs first.
C27_Independent ==
    \A h1 \in Reqs, h2 \in Reqs :
        (h1 < h2 /\ req[h1].pc = "held" /\ req[h2].pc = "held"
                 /\ req[h1].task # req[h2].task) =>
            LET db == [store |-> store, req |-> req]
            IN  \A i1 \in InputsFor(req[h1].obj) :
                    LET a == Effect(db, h1, i1)
                    IN  /\ a.store[req[h2].task] = store[req[h2].task]
                        /\ a.req[h2] = req[h2]
                        /\ \A i2 \in InputsFor(req[h2].obj) :
                               LET b == Effect(db, h2, i2)
                                   ab == Effect(a, h2, i2)
                                   ba == Effect(b, h1, i1)
                               IN  /\ b.store[req[h1].task] = store[req[h1].task]
                                   /\ b.req[h1] = req[h1]
                                   /\ ab.store = ba.store
                                   /\ ab.req = ba.req
                                   /\ ab.result = b.result
                                   /\ ba.result = a.result

\* Two threads have each moved a different task.
C27_Witness ==
    /\ Len(audit) = 2
    /\ audit[1].task # audit[2].task
    /\ req[1].pc = "held" /\ req[2].pc = "held"
    /\ req[1].task # req[2].task
    /\ \A k \in 1 .. 2 : store[audit[k].task].status = audit[k].new


\* The statuses that the text of a joined list names.
Split(text) == {text[k] : k \in DOMAIN text} \ {", "}

C29_AnyoneCancelsPending ==
    (Called /\ last.old = PENDENTE /\ last.new = CANCELADA
        /\ is_authenticated(last.user) /\ NoFault) =>
        /\ last.result = "returned"
        /\ last.obj_status = CANCELADA
        /\ store[last.task].status = CANCELADA

\* A user who is neither staff nor the assignee cancels a pending task that
\* has no description and is overdue.
C29_Witness ==
    /\ Called
    /\ last.old = PENDENTE /\ last.new = CANCELADA
    /\ last.user = "dev1" /\ ~is_staff(last.user)
    /\ CalledTask.assignee = "dev2"
    /\ CalledTask.descricao = <<>>
    /\ CalledTask.data_entrega.day < Today
    /\ last.result = "returned"
    /\ store[last.task].status = CANCELADA


\* C30 as claimed: whenever the stored status of a task changes, the new
\* status is one that VALID_TRANSITIONS lists for the status stored before,
\* so the statuses a task takes in the store form a path of the graph.
C30_StoredStatusFollowsEdges ==
    [][\A id \in TaskIds :
          (store[id] # NoTask /\ store'[id] # NoTask
               /\ store'[id].status # store[id].status) =>
              store'[id].status \in VALID_TRANSITIONS(store[id].status)]_vars


\* C31 as claimed: a successful transition writes only the status of its
\* task: the assignee, the description and the due date of the row stay as
\* the store held them just before the commit.
C31_OnlyStatusWritten ==
    [][\A id \in TaskIds :
          (last'.op = "transition" /\ last'.task = id
               /\ last'.result = "returned" /\ store'[id] # store[id]) =>
              store'[id] = [store[id] EXCEPT !.status = last'.new]]_vars


\* C32 as claimed: when the atomic block raises after the checks passed,
\* the object the caller passed in still has its old status, the one the
\* rolled-back store holds.
C32_ObjectRolledBack ==
    (Called /\ last.h # 0 /\ ~NoFault) =>
        /\ req[last.h].obj.status = last.old
        /\ req[last.h].obj.status = store[last.task].status


\* C33: on the way to EM_PROGRESSO a task without assignee fails with
\* MissingAssignee also when its due date is in the past, and on the way to
\* CONCLUIDA a description that is too short fails with
\* MissingCompletionNotes also when the actor is neither the assignee nor
\* staff.
C33_RuleOrder ==
    /\ (Called /\ last.old = PENDENTE /\ last.new = EM_PROGRESSO
            /\ CalledTask.assignee = NoUser
            /\ CalledTask.data_entrega.day < Today) =>
           last.result = "MissingAssignee"
    /\ (Called /\ last.old = EM_PROGRESSO /\ last.new = CONCLUIDA
            /\ TrimmedLen(CalledTask.descricao) < MinDescLen
            /\ CalledTask.assignee \notin {NoUser, last.user}
            /\ ~is_staff(last.user)) =>
           last.result = "MissingCompletionNotes"

\* A pending task without assignee whose due date, a date, is in the past
\* is asked to start.
C33_Witness ==
    /\ Called
    /\ last.old = PENDENTE /\ last.new = EM_PROGRESSO
    /\ last.user = "dev1"
    /\ CalledTask.assignee = NoUser
    /\ CalledTask.data_entrega = [kind |-> "date", day |-> Today - 1]
    /\ last.result = "MissingAssignee"


\* C34 as claimed: in every summary returned the four counts by status add
\* up to total_tasks, and the progress is the one that the reported total
\* and the reported count of completed tasks give.
C34_SummaryConsistent ==
    Summarised =>
        LET s == last.summary
        IN  /\ s.tasks_pendentes + s.tasks_em_progresso
                   + s.tasks_concluidas + s.tasks_canceladas = s.total_tasks
            /\ s.progress_percentage =
                   IF s.total_tasks = 0 THEN 0
                   ELSE round2(s.tasks_concluidas, s.total_tasks)


\* The statuses reached from a status by at most n transitions of the table.
RECURSIVE ReachedIn(_, _)
ReachedIn(from, n) ==
    IF n = 0 THEN {from}
    ELSE LET near == ReachedIn(from, n - 1)
         IN  near \cup UNION {VALID_TRANSITIONS(s) : s \in near}

Reached(from) == ReachedIn(from, Cardinality(StatusChoices))

\* A staff user can take the task to CONCLUIDA with at most n calls, each
\* of which passes every check.
RECURSIVE CanFinish(_, _)
CanFinish(task, n) ==
    \/ task.status = CONCLUIDA
    \/ /\ n > 0
       /\ \E s \in StatusChoices \ {task.status} :
              /\ Validate(task, s, "admin") = OK
              /\ CanFinish([task EXCEPT !.status = s], n - 1)

\* C35: every status is reached from PENDENTE, every status but CONCLUIDA
\* has a transition out of it and reaches CONCLUIDA, and a task with an
\* assignee, a description of ten characters and a due date not in the
\* past can, whatever its status, be taken to CONCLUIDA by a staff user.
C35_DoneReachable ==
    /\ Reached(PENDENTE) = StatusChoices
    /\ \A s \in StatusChoices \ {CONCLUIDA} :
           VALID_TRANSITIONS(s) # {} /\ CONCLUIDA \in Reached(s)
    /\ VALID_TRANSITIONS(CONCLUIDA) = {}
    /\ \A h \in Reqs :
           (req[h].pc = "held" /\ req[h].obj.assignee # NoUser
                /\ TrimmedLen(req[h].obj.descricao) >= MinDescLen
                /\ req[h].obj.data_entrega.day >= Today) =>
               \A task \in {req[h].obj, FromDb(store[req[h].task])} :
                   CanFinish(task, Cardinality(StatusChoices) - 1)

\* The script has cancelled its task: three more calls take it to CONCLUIDA,
\* two do not.
C35_Witness ==
    /\ Called /\ last.result = "returned" /\ last.new = CANCELADA
    /\ store[last.task].status = CANCELADA
    /\ req[last.h].obj.status = CANCELADA
    /\ CanFinish(req[last.h].obj, 3)
    /\ ~CanFinish(req[last.h].obj, 2)


\* C36: the call from EM_PROGRESSO to PENDENTE succeeds for every
\* authenticated actor, also one who is neither staff nor the assignee,
\* whatever the content of the task; the task and its row are PENDENTE and
\* the row keeps the assignee the task had.
C36_SendBack ==
    (Called /\ last.old = EM_PROGRESSO /\ last.new = PENDENTE
        /\ is_authenticated(last.user) /\ NoFault) =>
        /\ last.result = "returned"
        /\ last.obj_status = PENDENTE
        /\ store[last.task].status = PENDENTE
        /\ store[last.task].assignee = CalledTask.assignee

\* A user who is neither staff nor the assignee sends back a task in
\* progress that is assigned to someone else.
C36_Witness ==
    /\ Called
    /\ last.old = EM_PROGRESSO /\ last.new = PENDENTE
    /\ last.user = "dev1" /\ ~is_staff(last.user)
    /\ last.result = "returned"
    /\ store[last.task].status = PENDENTE
    /\ store[last.task].assignee = "dev2"

====
